---- MODULE Spec2Model ----
(***************************************************************************)
(* Model of the Cartan-decomposition / KAK routines of                     *)
(* demonstrations/tutorial_fdhs.py:                                        *)
(*   even_odd_involution, cartan_decomposition, _commutes_with_all,        *)
(*   cartan_subalgebra, run_opt, the module-level Heisenberg chain         *)
(*   (gens, g, k, m) and the module-level use theta_opt;                   *)
(* and of the dynamic circuits of                                          *)
(* demonstrations/tutorial_how_to_create_dynamic_mcm_circuits.py.          *)
(* Operator elements are Pauli sentences (finite maps from Pauli words to  *)
(* complex coefficients) over NWires tensor factors, n_wires for the chain.*)
(***************************************************************************)
EXTENDS Integers, Sequences, FiniteSets, TLC

VARIABLES
    g,            \* cartan_decomposition: the input list of operators
    involution,   \* cartan_decomposition: the involution, as its label table
    k,            \* cartan_decomposition: vertical output list
    m,            \* horizontal list: output of cartan_decomposition,
                  \* input of cartan_subalgebra
    which,        \* cartan_subalgebra: the seed index
    h,            \* cartan_subalgebra: the subalgebra being grown
    mtilde,       \* cartan_subalgebra: the remainder (copy of m)
    value_and_grad, \* run_opt: the callable step evaluates, as its value table
    theta,        \* run_opt: current parameter vector
    n_epochs,     \* run_opt: iteration budget
    loss,         \* module-level loss function, as its value table
    val,          \* run_opt: last loss value returned by step
    energy,       \* run_opt: loss trajectory
    thetas,       \* run_opt: parameter trajectory
    gradients,    \* run_opt: third returned list
    theta_opt,    \* module level: thetas[-1]
    theta0,       \* module level: the initial parameter vector
    first,        \* what an earlier call of run_opt with the same arguments
                  \* returned, for the comparison of two runs
    x,            \* dynamic circuits: the rotation angles
    selection,    \* dynamic circuits: the selection criterion
    state,        \* dynamic circuits: the basis states of the six qubits that
                  \* carry a non-zero amplitude
    all_mcms,     \* dynamic circuits: the stored measurement values
    sample,       \* dynamic circuits: the bit string sampled at the end
    i,            \* position of the running for-loop
    pc,           \* program position
    err           \* the exception raised, "none" while none

vars == <<g, involution, k, m, which, h, mtilde, theta, n_epochs, loss, val,
          energy, thetas, gradients, theta_opt, theta0, first, value_and_grad,
          x, selection, state, all_mcms, sample, i, pc, err>>

\* the variables of tutorial_how_to_create_dynamic_mcm_circuits.py
mcmVars == <<x, selection, state, all_mcms, sample>>

\* the variables of tutorial_fdhs.py
fdhsVars == <<g, involution, k, m, which, h, mtilde, theta, n_epochs, loss, val,
              energy, thetas, gradients, theta_opt, theta0, first,
              value_and_grad>>

----------------------------------------------------------------------------
(* Bounds of the model *)

\* longest list g handed to cartan_decomposition
MaxLenG == 3
\* longest list m handed to cartan_subalgebra
MaxLenM == 3
\* largest iteration budget handed to run_opt
MaxEpochs == 3
\* parameter vectors are abstracted to the points 0..MaxTheta
MaxTheta == 2
\* numeric loss values are 0..MaxLoss
MaxLoss == 1

\* number of tensor factors of the modelled Pauli words
NWires == 2

----------------------------------------------------------------------------
(* Complex coefficients with integer parts: <<re, im>> *)

CZero == <<0, 0>>
COne == <<1, 0>>
CI == <<0, 1>>
CAdd(a, b) == <<a[1] + b[1], a[2] + b[2]>>
CMul(a, b) == <<a[1] * b[1] - a[2] * b[2], a[1] * b[2] + a[2] * b[1]>>
CScale(n, a) == <<n * a[1], n * a[2]>>

----------------------------------------------------------------------------
(* Pauli words: one letter per wire, "I" for an absent factor *)

Letters == {"I", "X", "Y", "Z"}
Wires == 1..NWires
PauliWords == [Wires -> Letters]

\* len(pw): the number of non-identity factors of a Pauli word
WordLen(pw) == Cardinality({w \in DOMAIN pw : pw[w] # "I"})

\* single-letter product a.b = factor * letter
LetterMul(a, b) ==
    IF a = "I" THEN [op |-> b, factor |-> COne]
    ELSE IF b = "I" THEN [op |-> a, factor |-> COne]
    ELSE IF a = b THEN [op |-> "I", factor |-> COne]
    ELSE IF <<a, b>> = <<"X", "Y">> THEN [op |-> "Z", factor |-> CI]
    ELSE IF <<a, b>> = <<"Y", "Z">> THEN [op |-> "X", factor |-> CI]
    ELSE IF <<a, b>> = <<"Z", "X">> THEN [op |-> "Y", factor |-> CI]
    ELSE IF <<a, b>> = <<"Y", "X">> THEN [op |-> "Z", factor |-> CScale(-1, CI)]
    ELSE IF <<a, b>> = <<"Z", "Y">> THEN [op |-> "X", factor |-> CScale(-1, CI)]
    ELSE [op |-> "Y", factor |-> CScale(-1, CI)]

RECURSIVE WordFactor(_, _, _)
WordFactor(p, q, w) ==
    IF w = 0 THEN COne
    ELSE CMul(WordFactor(p, q, w - 1), LetterMul(p[w], q[w]).factor)

\* PauliWord._matmul: the product word and its phase
WordMatmul(p, q) ==
    [pw |-> [w \in DOMAIN p |-> LetterMul(p[w], q[w]).op],
     coeff |-> WordFactor(p, q, Cardinality(DOMAIN p))]

\* PauliWord.commutes_with: an even number of wires carry two different
\* non-identity letters
WordCommutes(p, q) ==
    Cardinality({w \in DOMAIN p : p[w] # "I" /\ q[w] # "I" /\ p[w] # q[w]}) % 2 = 0

----------------------------------------------------------------------------
(* Pauli sentences: functions from a finite set of Pauli words to          *)
(* coefficients                                                            *)

RECURSIVE SumOver(_, _, _, _)
\* sum of 2 * phase * a[p] * b[q] over the pairs of S whose product is pw
SumOver(S, a, b, pw) ==
    IF S = {} THEN CZero
    ELSE LET pq == CHOOSE e \in S : TRUE
             pr == WordMatmul(pq[1], pq[2])
             term == IF pr.pw = pw
                     THEN CMul(CScale(2, pr.coeff), CMul(a[pq[1]], b[pq[2]]))
                     ELSE CZero
         IN CAdd(term, SumOver(S \ {pq}, a, b, pw))

\* PauliSentence.commutator: accumulate the word commutators of all pairs
Commutator(a, b) ==
    LET pairs == {pq \in (DOMAIN a) \X (DOMAIN b) : ~WordCommutes(pq[1], pq[2])}
        words == {WordMatmul(pq[1], pq[2]).pw : pq \in pairs}
    IN [pw \in words |-> SumOver(pairs, a, b, pw)]

\* PauliSentence.simplify: drop the terms whose coefficient is zero
Simplify(ps) ==
    LET keep == {pw \in DOMAIN ps : ps[pw] # CZero}
    IN [pw \in keep |-> ps[pw]]

\* a sentence of one word with coefficient 1; the wires beyond the given
\* letters carry the identity
Word(letters) ==
    LET pw == [w \in Wires |-> IF w <= Len(letters) THEN letters[w] ELSE "I"]
    IN [w1 \in {pw} |-> COne]

\* the sum of two sentences over different words
Plus(a, b) == [pw \in (DOMAIN a) \cup (DOMAIN b) |->
                  IF pw \in DOMAIN a THEN a[pw] ELSE b[pw]]

XX == Word(<<"X", "X">>)
YY == Word(<<"Y", "Y">>)
ZZ == Word(<<"Z", "Z">>)
XI == Word(<<"X", "I">>)
ZI == Word(<<"Z", "I">>)
YI == Word(<<"Y", "I">>)
YX == Word(<<"Y", "X">>)
XXpYY == Plus(Word(<<"X", "X">>), Word(<<"Y", "Y">>))
XYpYX == Plus(Word(<<"X", "Y">>), Word(<<"Y", "X">>))

\* the operator elements the lists are drawn from
Ops == {XX, YY, ZZ, XI, ZI, YI, YX, XXpYY, XYpYX}

Range(s) == {s[j] : j \in 1..Len(s)}
SeqsUpTo(S, n) == UNION {[1..l -> S] : l \in 0..n}


\* a plausible slip: the index taken modulo the length, so that no index
\* into a non-empty list raises
PyIndexWrapped(s, idx) == IF Len(s) = 0 THEN 0 ELSE (idx % Len(s)) + 1

\* x[idx] of a Python list: 1-based position, 0 when it raises IndexError
PyIndex(s, idx) ==
    IF idx >= 0 /\ idx < Len(s) THEN idx + 1
    ELSE IF idx < 0 /\ idx >= -Len(s) THEN Len(s) + idx + 1
    ELSE 0

\* outcome of a call: a returned value or a raised exception
Ret(v) == [exc |-> "none", ret |-> v]
Raise(e) == [exc |-> e, ret |-> 0]

----------------------------------------------------------------------------
(* even_odd_involution and cartan_decomposition *)

\* a plausible slip: the parity inverted, label 1 for an even number of
\* non-identity factors
even_odd_inverted(op) ==
    IF Cardinality(DOMAIN op) # 1 THEN Raise("ValueError")
    ELSE LET pw == CHOOSE w1 \in DOMAIN op : TRUE IN Ret((WordLen(pw) + 1) % 2)

\* a plausible slip: the length of the sentence (its number of words) is
\* taken instead of the length of its word
even_odd_of_sentence(op) ==
    IF Cardinality(DOMAIN op) # 1 THEN Raise("ValueError")
    ELSE Ret(Cardinality(DOMAIN op) % 2)

\* [pw] = op.pauli_rep unpacks exactly one word, else ValueError;
\* the label is len(pw) % 2
even_odd_involution(op) ==
    IF Cardinality(DOMAIN op) # 1 THEN Raise("ValueError")
    ELSE LET pw == CHOOSE w1 \in DOMAIN op : TRUE IN Ret(WordLen(pw) % 2)

\* the table of even_odd_involution on the elements of a list
EvenOddOn(gg) == [op \in Range(gg) |-> even_odd_involution(op)]

\* the involutions handed to cartan_decomposition, as label tables on the
\* elements of g: every 0/1-valued one, and even_odd_involution
Involutions(gg) == {[op \in Range(gg) |-> Ret(f[op])] : f \in [Range(gg) -> {0, 1}]}
                      \cup {EvenOddOn(gg)}

\* Python truth value of a returned label
Truthy(label) == label.ret # 0

\* a plausible slip: the else branch lost, m.append(op) runs for every op
RouteNoElse(op, label, kk, mm) ==
    [k |-> IF Truthy(label) THEN Append(kk, op) ELSE kk, m |-> Append(mm, op)]

\* a plausible slip: the two branches exchanged
RouteSwapped(op, label, kk, mm) ==
    IF Truthy(label) THEN [k |-> kk, m |-> Append(mm, op)]
    ELSE [k |-> Append(kk, op), m |-> mm]

\* a plausible slip: insert(0, op) in place of append(op)
RoutePrepend(op, label, kk, mm) ==
    IF Truthy(label) THEN [k |-> <<op>> \o kk, m |-> mm]
    ELSE [k |-> kk, m |-> <<op>> \o mm]

\* if involution(op): k.append(op) else: m.append(op)
Route(op, label, kk, mm) ==
    IF Truthy(label) THEN [k |-> Append(kk, op), m |-> mm]
    ELSE [k |-> kk, m |-> Append(mm, op)]

\* a plausible slip: the labels validated against the word parity, with
\* ValueError for an involution that disagrees with it
cartan_decomposition_loop_strict ==
    /\ pc = "cd_loop"
    /\ i <= Len(g)
    /\ LET op == g[i]
           label == involution[op]
       IN IF label.exc # "none" \/ label # even_odd_involution(op)
          THEN /\ err' = "ValueError"
               /\ pc' = "raised"
               /\ UNCHANGED <<k, m, i>>
          ELSE /\ k' = Route(op, label, k, m).k
               /\ m' = Route(op, label, k, m).m
               /\ i' = i + 1
               /\ UNCHANGED <<pc, err>>
    /\ UNCHANGED <<theta0, first, value_and_grad, mcmVars>>
    /\ UNCHANGED <<g, involution, which, h, mtilde, theta, n_epochs, loss, val,
                   energy, thetas, gradients, theta_opt>>

\* one iteration of "for op in g"
cartan_decomposition_loop ==
    /\ pc = "cd_loop"
    /\ i <= Len(g)
    /\ LET op == g[i]
           label == involution[op]
       IN IF label.exc # "none"
          THEN /\ err' = label.exc
               /\ pc' = "raised"
               /\ UNCHANGED <<k, m, i>>
          ELSE /\ k' = Route(op, label, k, m).k
               /\ m' = Route(op, label, k, m).m
               /\ i' = i + 1
               /\ UNCHANGED <<pc, err>>
    /\ UNCHANGED <<theta0, first, value_and_grad, mcmVars>>
    /\ UNCHANGED <<g, involution, which, h, mtilde, theta, n_epochs, loss, val,
                   energy, thetas, gradients, theta_opt>>

\* a plausible slip: an empty g rejected with ValueError
cartan_decomposition_return_checked ==
    /\ pc = "cd_loop"
    /\ i > Len(g)
    /\ IF g = <<>>
       THEN pc' = "raised" /\ err' = "ValueError"
       ELSE pc' = "cd_returned" /\ err' = err
    /\ UNCHANGED <<theta0, first, value_and_grad, mcmVars>>
    /\ UNCHANGED <<g, involution, k, m, which, h, mtilde, theta, n_epochs, loss,
                   val, energy, thetas, gradients, theta_opt, i>>

\* return k, m
cartan_decomposition_return ==
    /\ pc = "cd_loop"
    /\ i > Len(g)
    /\ pc' = "cd_returned"
    /\ UNCHANGED <<theta0, first, value_and_grad, mcmVars>>
    /\ UNCHANGED <<g, involution, k, m, which, h, mtilde, theta, n_epochs, loss,
                   val, energy, thetas, gradients, theta_opt, i, err>>

----------------------------------------------------------------------------
(* _commutes_with_all and cartan_subalgebra *)

\* a plausible slip: com.simplify() left out, so that terms with
\* coefficient zero count
CommutatorIsEmpty(a, b) == DOMAIN Commutator(a, b) = {}

\* com = candidate.commutator(op); com.simplify(); len(com) == 0
CommutatorIsZero(a, b) == DOMAIN Simplify(Commutator(a, b)) = {}

\* a plausible slip: "return True" indented into the loop, so that only the
\* first op (the seed) is tested
_commutes_with_first(candidate, ops) ==
    Len(ops) = 0 \/ CommutatorIsZero(candidate, ops[1])

\* True iff no op of ops has a non-zero simplified commutator with candidate
_commutes_with_all(candidate, ops) ==
    \A j \in 1..Len(ops) : CommutatorIsZero(candidate, ops[j])

\* a plausible slip: mtilde.pop() in place of mtilde.remove(h_i)
ListPop(s, el) == SubSeq(s, 1, Len(s) - 1)

\* a plausible slip: every occurrence of el filtered out, as a list
\* comprehension [e for e in mtilde if e != h_i] would do
ListRemoveAll(s, el) == SelectSeq(s, LAMBDA e : e # el)

\* list.remove(el): the list without the first occurrence of el
\* (called only when el occurs; Python raises ValueError otherwise)
ListRemove(s, el) ==
    LET p == CHOOSE j \in 1..Len(s) : s[j] = el /\ \A l \in 1..(j - 1) : s[l] # el
    IN [j \in 1..(Len(s) - 1) |-> IF j < p THEN s[j] ELSE s[j + 1]]

\* a plausible slip: an empty m answered with an empty result
cartan_subalgebra_seed_guarded ==
    /\ pc = "cs_seed"
    /\ IF m = <<>>
       THEN /\ h' = <<>>
            /\ mtilde' = m
            /\ i' = 1
            /\ pc' = "cs_pass"
            /\ err' = err
       ELSE IF PyIndex(m, which) = 0
       THEN /\ err' = "IndexError"
            /\ pc' = "raised"
            /\ UNCHANGED <<h, mtilde, i>>
       ELSE /\ h' = <<m[PyIndex(m, which)]>>
            /\ mtilde' = m
            /\ i' = 1
            /\ pc' = "cs_pass"
            /\ err' = err
    /\ UNCHANGED <<theta0, first, value_and_grad, mcmVars>>
    /\ UNCHANGED <<g, involution, k, m, which, theta, n_epochs, loss, val,
                   energy, thetas, gradients, theta_opt>>

\* a plausible slip: the seed is always m[0], whatever which
cartan_subalgebra_seed_first ==
    /\ pc = "cs_seed"
    /\ IF PyIndex(m, which) = 0
       THEN /\ err' = "IndexError"
            /\ pc' = "raised"
            /\ UNCHANGED <<h, mtilde, i>>
       ELSE /\ h' = <<m[1]>>
            /\ mtilde' = m
            /\ i' = 1
            /\ pc' = "cs_pass"
            /\ err' = err
    /\ UNCHANGED <<theta0, first, value_and_grad, mcmVars>>
    /\ UNCHANGED <<g, involution, k, m, which, theta, n_epochs, loss, val,
                   energy, thetas, gradients, theta_opt>>

\* h = [m[which]]; mtilde = m.copy()
cartan_subalgebra_seed ==
    /\ pc = "cs_seed"
    /\ IF PyIndex(m, which) = 0
       THEN /\ err' = "IndexError"
            /\ pc' = "raised"
            /\ UNCHANGED <<h, mtilde, i>>
       ELSE /\ h' = <<m[PyIndex(m, which)]>>
            /\ mtilde' = m
            /\ i' = 1
            /\ pc' = "cs_pass"
            /\ err' = err
    /\ UNCHANGED <<theta0, first, value_and_grad, mcmVars>>
    /\ UNCHANGED <<g, involution, k, m, which, theta, n_epochs, loss, val,
                   energy, thetas, gradients, theta_opt>>

\* a plausible slip: the commutation test lost, only the membership test
\* is left
AcceptsUnlessPresent(m_i, hh) == m_i \notin Range(hh)

\* a plausible slip: the test "if m_i not in h" left out
AcceptsCommuting(m_i, hh) == _commutes_with_all(m_i, hh)

\* the acceptance test of one m_i against the current h
Accepts(m_i, hh) == _commutes_with_all(m_i, hh) /\ m_i \notin Range(hh)

\* a plausible slip: the pass stops one element short of the end of m
cartan_subalgebra_pass_short ==
    /\ pc = "cs_pass"
    /\ IF i < Len(m)
       THEN /\ h' = IF Accepts(m[i], h) THEN Append(h, m[i]) ELSE h
            /\ i' = i + 1
            /\ pc' = pc
       ELSE /\ h' = h
            /\ i' = 1
            /\ pc' = "cs_remove"
    /\ UNCHANGED <<theta0, first, value_and_grad, mcmVars>>
    /\ UNCHANGED <<g, involution, k, m, which, mtilde, theta, n_epochs, loss,
                   val, energy, thetas, gradients, theta_opt, err>>

\* one iteration of "for m_i in m", or the move to the removal loop
cartan_subalgebra_pass ==
    /\ pc = "cs_pass"
    /\ IF i <= Len(m)
       THEN /\ h' = IF Accepts(m[i], h) THEN Append(h, m[i]) ELSE h
            /\ i' = i + 1
            /\ pc' = pc
       ELSE /\ h' = h
            /\ i' = 1
            /\ pc' = "cs_remove"
    /\ UNCHANGED <<theta0, first, value_and_grad, mcmVars>>
    /\ UNCHANGED <<g, involution, k, m, which, mtilde, theta, n_epochs, loss,
                   val, energy, thetas, gradients, theta_opt, err>>

\* a plausible slip: mtilde = m without .copy(), so that the removal acts
\* on the caller's list
cartan_subalgebra_remove_in_place ==
    /\ pc = "cs_remove"
    /\ IF i <= Len(h)
       THEN IF h[i] \in Range(mtilde)
            THEN /\ mtilde' = ListRemove(mtilde, h[i])
                 /\ m' = mtilde'
                 /\ i' = i + 1
                 /\ UNCHANGED <<pc, err>>
            ELSE /\ err' = "ValueError"
                 /\ pc' = "raised"
                 /\ UNCHANGED <<m, mtilde, i>>
       ELSE /\ pc' = "cs_returned"
            /\ UNCHANGED <<m, mtilde, i, err>>
    /\ UNCHANGED <<theta0, first, value_and_grad, mcmVars>>
    /\ UNCHANGED <<g, involution, k, which, h, theta, n_epochs, loss, val,
                   energy, thetas, gradients, theta_opt>>

\* one iteration of "for h_i in h: mtilde.remove(h_i)", or the return
cartan_subalgebra_remove ==
    /\ pc = "cs_remove"
    /\ IF i <= Len(h)
       THEN IF h[i] \in Range(mtilde)
            THEN /\ mtilde' = ListRemove(mtilde, h[i])
                 /\ i' = i + 1
                 /\ UNCHANGED <<pc, err>>
            ELSE /\ err' = "ValueError"
                 /\ pc' = "raised"
                 /\ UNCHANGED <<mtilde, i>>
       ELSE /\ pc' = "cs_returned"
            /\ UNCHANGED <<mtilde, i, err>>
    /\ UNCHANGED <<theta0, first, value_and_grad, mcmVars>>
    /\ UNCHANGED <<g, involution, k, m, which, h, theta, n_epochs, loss, val,
                   energy, thetas, gradients, theta_opt>>

\* the list with its first element moved to the end
Rotated(s) == IF s = <<>> THEN s ELSE Append(Tail(s), Head(s))

\* cartan_subalgebra called a second time on the same elements, with the
\* next seed index or with the list in another order: what the first call
\* was given and returned is kept for the comparison
cartan_subalgebra_again ==
    /\ pc = "cs_returned"
    /\ first.run = 1
    /\ first' = [run |-> 2, m |-> m, which |-> which, h |-> h]
    /\ \/ m' = m /\ which' = which + 1
       \/ m' = Rotated(m) /\ which' = which
    /\ h' = <<>>
    /\ mtilde' = <<>>
    /\ i' = 1
    /\ pc' = "cs_seed"
    /\ UNCHANGED <<theta0, value_and_grad, mcmVars>>
    /\ UNCHANGED <<g, involution, k, theta, n_epochs, loss, val, energy,
                   thetas, gradients, theta_opt, err>>

----------------------------------------------------------------------------
(* run_opt and theta_opt *)

Thetas == 0..MaxTheta

\* a plausible slip: the rebinding left out, the argument is what step calls
value_and_grad_kept(argument) == argument

\* value_and_grad = jax.jit(jax.value_and_grad(loss)): whatever was passed,
\* the name is rebound to the value-and-gradient of the module-level loss
value_and_grad_rebound(argument) == loss
\* NaN is represented by the point above the numeric loss values
NaN == MaxLoss + 1
LossValues == 0..MaxLoss \cup {NaN}

\* a plausible slip: val computed after the update, at the new theta
StepResultsAfter(th) == {[theta |-> t, val |-> value_and_grad[t]] : t \in Thetas}

\* step(opt_state, theta): val is the loss at the incoming theta; the new
\* theta is whatever the L-BFGS update of the backend produces
StepResults(th) == {[theta |-> t, val |-> value_and_grad[th]] : t \in Thetas}

\* a plausible slip: the loop body also records something in gradients
run_opt_loop_recording ==
    /\ pc = "ro_loop"
    /\ i < n_epochs
    /\ \E r \in StepResults(theta) :
          /\ theta' = r.theta
          /\ val' = <<r.val>>
          /\ energy' = Append(energy, r.val)
          /\ thetas' = Append(thetas, r.theta)
          /\ gradients' = Append(gradients, r.val)
    /\ i' = i + 1
    /\ UNCHANGED <<theta0, first, value_and_grad, mcmVars>>
    /\ UNCHANGED <<g, involution, k, m, which, h, mtilde, n_epochs, loss,
                   theta_opt, pc, err>>

\* one iteration of "for _ in range(n_epochs)"
run_opt_loop ==
    /\ pc = "ro_loop"
    /\ i < n_epochs
    /\ \E r \in StepResults(theta) :
          /\ theta' = r.theta
          /\ val' = <<r.val>>
          /\ energy' = Append(energy, r.val)
          /\ thetas' = Append(thetas, r.theta)
    /\ i' = i + 1
    /\ UNCHANGED <<theta0, first, value_and_grad, mcmVars>>
    /\ UNCHANGED <<g, involution, k, m, which, h, mtilde, n_epochs, loss,
                   gradients, theta_opt, pc, err>>

\* a plausible slip: an early-stopping test on the loss delta, leaving the
\* loop once two successive loss values are equal
run_opt_return_early ==
    /\ pc = "ro_loop"
    /\ \/ i >= n_epochs
       \/ Len(energy) >= 2 /\ energy[Len(energy)] = energy[Len(energy) - 1]
    /\ IF val = <<>>
       THEN err' = "UnboundLocalError" /\ pc' = "raised"
       ELSE IF energy = <<>>
            THEN err' = "ValueError" /\ pc' = "raised"
            ELSE err' = err /\ pc' = "ro_returned"
    /\ UNCHANGED <<theta0, first, value_and_grad, mcmVars>>
    /\ UNCHANGED <<g, involution, k, m, which, h, mtilde, theta, n_epochs, loss,
                   val, energy, thetas, gradients, theta_opt, i>>

\* print(f"final loss: {val}; min loss: {np.min(energy)}; ..."), then
\* return thetas, energy, gradients
run_opt_return ==
    /\ pc = "ro_loop"
    /\ i >= n_epochs
    /\ IF val = <<>>
       THEN err' = "UnboundLocalError" /\ pc' = "raised"
       ELSE IF energy = <<>>
            THEN err' = "ValueError" /\ pc' = "raised"
            ELSE err' = err /\ pc' = "ro_returned"
    /\ UNCHANGED <<theta0, first, value_and_grad, mcmVars>>
    /\ UNCHANGED <<g, involution, k, m, which, h, mtilde, theta, n_epochs, loss,
                   val, energy, thetas, gradients, theta_opt, i>>

\* a plausible slip: thetas[0] in place of thetas[-1]
take_theta_opt_first ==
    /\ pc = "ro_returned"
    /\ IF PyIndex(thetas, 0) = 0
       THEN err' = "IndexError" /\ pc' = "raised" /\ theta_opt' = theta_opt
       ELSE theta_opt' = <<thetas[PyIndex(thetas, 0)]>> /\ pc' = "done" /\ err' = err
    /\ UNCHANGED <<theta0, first, value_and_grad, mcmVars>>
    /\ UNCHANGED <<g, involution, k, m, which, h, mtilde, theta, n_epochs, loss,
                   val, energy, thetas, gradients, i>>

\* theta_opt = thetas[-1]
take_theta_opt ==
    /\ pc = "ro_returned"
    /\ IF PyIndex(thetas, -1) = 0
       THEN err' = "IndexError" /\ pc' = "raised" /\ theta_opt' = theta_opt
       ELSE theta_opt' = <<thetas[PyIndex(thetas, -1)]>> /\ pc' = "done" /\ err' = err
    /\ UNCHANGED <<theta0, first, value_and_grad, mcmVars>>
    /\ UNCHANGED <<g, involution, k, m, which, h, mtilde, theta, n_epochs, loss,
                   val, energy, thetas, gradients, i>>

\* a plausible slip: theta0 updated in place by the first run, so that the
\* second run starts from the last vector of the first
run_opt_again_warm ==
    /\ pc = "ro_returned"
    /\ first.run = 1
    /\ first' = [run |-> 2, thetas |-> thetas, energy |-> energy]
    /\ theta' = theta
    /\ energy' = <<>>
    /\ gradients' = <<>>
    /\ thetas' = <<>>
    /\ val' = <<>>
    /\ i' = 0
    /\ value_and_grad' = value_and_grad_rebound(loss)
    /\ pc' = "ro_loop"
    /\ UNCHANGED <<theta0, mcmVars>>
    /\ UNCHANGED <<g, involution, k, m, which, h, mtilde, n_epochs, loss,
                   theta_opt, err>>

\* run_opt(loss, theta0, n_epochs, lr) called a second time with the same
\* arguments: what the first call returned is kept for the comparison, and
\* the call starts from theta0 with fresh lists and no val
run_opt_again ==
    /\ pc = "ro_returned"
    /\ first.run = 1
    /\ first' = [run |-> 2, thetas |-> thetas, energy |-> energy]
    /\ theta' = theta0
    /\ energy' = <<>>
    /\ gradients' = <<>>
    /\ thetas' = <<>>
    /\ val' = <<>>
    /\ i' = 0
    /\ value_and_grad' = value_and_grad_rebound(loss)
    /\ pc' = "ro_loop"
    /\ UNCHANGED <<theta0, mcmVars>>
    /\ UNCHANGED <<g, involution, k, m, which, h, mtilde, n_epochs, loss,
                   theta_opt, err>>

\* the callables handed to run_opt in place of loss: the constant ones
Arguments == {[t \in Thetas |-> v] : v \in LossValues}

\* run_opt(argument, theta0, n_epochs, lr) called a second time with
\* another first argument and the same other arguments: what the first call
\* returned and what the second is handed are kept for the comparison
run_opt_again_other ==
    /\ pc = "ro_returned"
    /\ first.run = 1
    /\ \E argument \in Arguments \ {loss} :
          /\ first' = [run |-> 2, thetas |-> thetas, energy |-> energy,
                       gradients |-> gradients, argument |-> argument]
          /\ value_and_grad' = value_and_grad_rebound(argument)
    /\ theta' = theta0
    /\ energy' = <<>>
    /\ gradients' = <<>>
    /\ thetas' = <<>>
    /\ val' = <<>>
    /\ i' = 0
    /\ pc' = "ro_loop"
    /\ UNCHANGED <<theta0, mcmVars>>
    /\ UNCHANGED <<g, involution, k, m, which, h, mtilde, n_epochs, loss,
                   theta_opt, err>>

\* the second run hands step the opt_state and theta the first run handed
\* it at the same iteration (opt_state is determined by the initial vector
\* and the values and vectors seen so far)
SameBackendInput ==
    /\ first.run = 2
    /\ thetas = SubSeq(first.thetas, 1, i)
    /\ energy = SubSeq(first.energy, 1, i)
    /\ theta = IF i = 0 THEN theta0 ELSE first.thetas[i]

\* step is a function of its arguments: on the same input it returns what
\* it returned in the first run
DeterministicBackend == SameBackendInput => theta' = first.thetas[i + 1]

----------------------------------------------------------------------------
(* The module-level Heisenberg chain: gens, g = qml.lie_closure(gens) and  *)
(* k, m = cartan_decomposition(g, even_odd_involution)                     *)

n_wires == 4

\* P(i) @ P(i + 1) as a sentence of one word on n_wires wires, coefficient 1
Neighbours(letter, a) ==
    LET pw == [w \in 1..n_wires |-> IF w = a \/ w = a + 1 THEN letter ELSE "I"]
    IN [w1 \in {pw} |-> COne]

\* a plausible slip: the Z(i) @ Z(i+1) generators left out
gens_without_Z ==
    [j \in 1..(2 * (n_wires - 1)) |->
        IF j <= n_wires - 1 THEN Neighbours("X", j)
        ELSE Neighbours("Y", j - (n_wires - 1))]

\* gens: X(i) @ X(i+1), then Y(i) @ Y(i+1), then Z(i) @ Z(i+1),
\* for i in range(n_wires - 1)
gens ==
    [j \in 1..(3 * (n_wires - 1)) |->
        IF j <= n_wires - 1 THEN Neighbours("X", j)
        ELSE IF j <= 2 * (n_wires - 1) THEN Neighbours("Y", j - (n_wires - 1))
        ELSE Neighbours("Z", j - 2 * (n_wires - 1))]

\* the words that occur in the sentences of a list
WordsOf(basis) == UNION {DOMAIN basis[j] : j \in 1..Len(basis)}

\* lie_closure keeps a commutator with its purely imaginary coefficients
\* divided by 2i
Halved(com) == [pw \in DOMAIN com |-> <<com[pw][2] \div 2, 0>>]

\* com = ps1.commutator(ps2); com.simplify()
SimplifiedCommutator(basis, a, j) == Simplify(Commutator(basis[a], basis[j]))

\* the positions j before a whose commutator with basis[a] is non-zero and
\* linearly independent of the basis and of the commutators added before it
\* (for sentences of one word: its word is not there yet)
Independent(basis, a) ==
    {j \in 1..(a - 1) :
        LET com == SimplifiedCommutator(basis, a, j)
        IN /\ DOMAIN com # {}
           /\ ~(DOMAIN com \subseteq WordsOf(basis))
           /\ \A l \in 1..(j - 1) :
                 DOMAIN SimplifiedCommutator(basis, a, l) # DOMAIN com}

\* the basis with the independent commutators of basis[a] added, in the
\* order of the elements they were formed with
lie_closure_add(basis, a) ==
    LET J == Independent(basis, a)
        at(p) == CHOOSE j \in J : Cardinality({l \in J : l <= j}) = p
    IN basis \o [p \in 1..Cardinality(J) |->
                    Halved(SimplifiedCommutator(basis, a, at(p)))]

\* g = qml.lie_closure(gens): one basis element is combined with all the
\* elements before it; elements added on the way are combined in their turn
lie_closure_step ==
    /\ pc = "lc_loop"
    /\ i <= Len(g)
    /\ g' = lie_closure_add(g, i)
    /\ i' = i + 1
    /\ UNCHANGED <<theta0, first, value_and_grad, mcmVars>>
    /\ UNCHANGED <<involution, k, m, which, h, mtilde, theta, n_epochs, loss,
                   val, energy, thetas, gradients, theta_opt, pc, err>>

\* the closure is complete: k, m = cartan_decomposition(g, even_odd_involution)
\* is entered
lie_closure_done ==
    /\ pc = "lc_loop"
    /\ i > Len(g)
    /\ involution' = EvenOddOn(g)
    /\ k' = <<>>
    /\ m' = <<>>
    /\ i' = 1
    /\ pc' = "cd_loop"
    /\ UNCHANGED <<theta0, first, value_and_grad, mcmVars>>
    /\ UNCHANGED <<g, which, h, mtilde, theta, n_epochs, loss, val, energy,
                   thetas, gradients, theta_opt, err>>

----------------------------------------------------------------------------
(* Dynamic circuits: init_state, create_half_filled_state and              *)
(* create_selected_half_filled_state.  The state of the six qubits is the  *)
(* set of computational basis states with a non-zero amplitude; wire w is  *)
(* position w + 1 of a basis state.                                        *)

\* range(3): the measured wires 0, 1, 2; wire w is paired with wire w + 3
NPairs == 3

\* rotation angles: RX(0) is the identity, RX(pi) flips the qubit, any other
\* angle gives both values a non-zero amplitude
Angles == {"zero", "pi", "generic"}

\* the device starts in |000000>
AllZero == [q \in 1..(2 * NPairs) |-> 0]

Flip(b, w) == [b EXCEPT ![w + 1] = 1 - @]

\* qml.X on wire w
ApplyX(S, w) == {Flip(b, w) : b \in S}

\* qml.CNOT([c, t])
ApplyCNOT(S, c, t) == {IF b[c + 1] = 1 THEN Flip(b, t) ELSE b : b \in S}

\* qml.RX(angle, w) on a wire that holds a basis value
ApplyRX(S, angle, w) ==
    IF angle = "zero" THEN S
    ELSE IF angle = "pi" THEN ApplyX(S, w)
    ELSE S \cup ApplyX(S, w)

\* for w in range(n): qml.RX(x[w], w)
RECURSIVE Rotate(_, _, _)
Rotate(S, xx, n) ==
    IF n = 0 THEN S ELSE ApplyRX(Rotate(S, xx, n - 1), xx[n], n - 1)

\* init_state(x): the rotations, then CNOT([0, 1]), CNOT([1, 2]), CNOT([2, 0])
init_state(S, xx) ==
    ApplyCNOT(ApplyCNOT(ApplyCNOT(Rotate(S, xx, NPairs), 0, 1), 1, 2), 2, 0)

\* the values qml.measure(w) can return, and the state it leaves
Outcomes(S, w) == {b[w + 1] : b \in S}
Collapse(S, w, mcm) == {b \in S : b[w + 1] = mcm}

\* a plausible slip: qml.cond(mcm, qml.X) in place of qml.cond(~mcm, qml.X)
MeasureAndFlipOnOne(S, w, mcm) ==
    IF mcm = 1 THEN ApplyX(Collapse(S, w, mcm), w + NPairs)
    ELSE Collapse(S, w, mcm)

\* mcm = qml.measure(w); qml.cond(~mcm, qml.X)(w + 3)
MeasureAndFlip(S, w, mcm) ==
    IF mcm = 0 THEN ApplyX(Collapse(S, w, mcm), w + NPairs)
    ELSE Collapse(S, w, mcm)

\* a plausible slip: the second conditional flip, on wire w + 3, left out
CorrectFirstOnly(S, w, sel, mcm) ==
    IF sel = <<>> THEN S
    ELSE IF mcm # sel[1] THEN ApplyX(S, w)
    ELSE S

\* if sel is not None: qml.cond(mcm != sel, qml.X)(w), then the same on
\* w + 3; None is the empty tuple
Correct(S, w, sel, mcm) ==
    IF sel = <<>> THEN S
    ELSE IF mcm # sel[1] THEN ApplyX(ApplyX(S, w), w + NPairs)
    ELSE S

\* create_half_filled_state: init_state(x)
half_filled_init ==
    /\ pc = "hf_init"
    /\ state' = init_state(state, x)
    /\ i' = 0
    /\ pc' = "hf_measure"
    /\ UNCHANGED <<x, selection, all_mcms, sample, err, fdhsVars>>

\* create_half_filled_state: one iteration of "for w in range(3)"
half_filled_measure ==
    /\ pc = "hf_measure"
    /\ i < NPairs
    /\ \E mcm \in Outcomes(state, i) : state' = MeasureAndFlip(state, i, mcm)
    /\ i' = i + 1
    /\ UNCHANGED <<x, selection, all_mcms, sample, pc, err, fdhsVars>>

\* create_half_filled_state: qml.counts(wires=range(6)), one shot
half_filled_counts ==
    /\ pc = "hf_measure"
    /\ i >= NPairs
    /\ \E b \in state : sample' = b
    /\ pc' = "hf_done"
    /\ UNCHANGED <<x, selection, state, all_mcms, i, err, fdhsVars>>

\* create_selected_half_filled_state: init_state(x); all_mcms = []
selected_init ==
    /\ pc = "sel_init"
    /\ state' = init_state(state, x)
    /\ all_mcms' = <<>>
    /\ i' = 0
    /\ pc' = "sel_measure"
    /\ UNCHANGED <<x, selection, sample, err, fdhsVars>>

\* create_selected_half_filled_state: one iteration of the first loop, or
\* the move to the second
selected_measure ==
    /\ pc = "sel_measure"
    /\ IF i < NPairs
       THEN /\ \E mcm \in Outcomes(state, i) :
                  /\ state' = MeasureAndFlip(state, i, mcm)
                  /\ all_mcms' = Append(all_mcms, mcm)
            /\ i' = i + 1
            /\ pc' = pc
       ELSE /\ i' = 0
            /\ pc' = "sel_correct"
            /\ UNCHANGED <<state, all_mcms>>
    /\ UNCHANGED <<x, selection, sample, err, fdhsVars>>

\* create_selected_half_filled_state: one iteration of
\* "for w, sel, mcm in zip(range(3), selection, all_mcms)"
selected_correct ==
    /\ pc = "sel_correct"
    /\ i < NPairs
    /\ state' = Correct(state, i, selection[i + 1], all_mcms[i + 1])
    /\ i' = i + 1
    /\ UNCHANGED <<x, selection, all_mcms, sample, pc, err, fdhsVars>>

\* create_selected_half_filled_state: qml.counts(wires=range(6)), one shot
selected_counts ==
    /\ pc = "sel_correct"
    /\ i >= NPairs
    /\ \E b \in state : sample' = b
    /\ pc' = "sel_done"
    /\ UNCHANGED <<x, selection, state, all_mcms, i, err, fdhsVars>>

----------------------------------------------------------------------------
(* Specifications *)

\* the variables of the routines that are not running
IdleCD == g = <<>> /\ involution = <<>> /\ k = <<>>
IdleCS == which = 0 /\ h = <<>> /\ mtilde = <<>>
NoFirst == [run |-> 1, thetas |-> <<>>, energy |-> <<>>]
IdleRO == /\ theta = 0 /\ n_epochs = 0 /\ loss = [t \in Thetas |-> 0]
          /\ val = <<>> /\ energy = <<>> /\ thetas = <<>>
          /\ gradients = <<>> /\ theta_opt = <<>>
          /\ theta0 = 0 /\ first = NoFirst
          /\ value_and_grad = [t \in Thetas |-> 0]
IdleMCM == /\ x = <<>> /\ selection = <<>> /\ state = {}
           /\ all_mcms = <<>> /\ sample = <<>>

InitCD ==
    /\ g \in SeqsUpTo(Ops, MaxLenG)
    /\ involution \in Involutions(g)
    /\ k = <<>>
    /\ m = <<>>
    /\ i = 1
    /\ pc = "cd_loop"
    /\ err = "none"
    /\ IdleCS
    /\ IdleRO
    /\ IdleMCM

NextCD == cartan_decomposition_loop \/ cartan_decomposition_return

SpecCD == InitCD /\ [][NextCD]_vars

InitCS ==
    /\ m \in SeqsUpTo(Ops, MaxLenM)
    /\ which \in -(MaxLenM + 1)..(MaxLenM + 1)
    /\ h = <<>>
    /\ mtilde = <<>>
    /\ i = 1
    /\ pc = "cs_seed"
    /\ err = "none"
    /\ IdleCD
    /\ IdleRO
    /\ IdleMCM

NextCS == cartan_subalgebra_seed \/ cartan_subalgebra_pass \/ cartan_subalgebra_remove

SpecCS == InitCS /\ [][NextCS]_vars

\* cartan_subalgebra called twice on the same elements
NextCS2 == NextCS \/ cartan_subalgebra_again

SpecCS2 == InitCS /\ [][NextCS2]_vars

\* a call of either routine: cartan_decomposition(g, involution) or
\* cartan_subalgebra(m, which)
InitCDCS == InitCD \/ InitCS

NextCDCS == NextCD \/ NextCS

SpecCDCS == InitCDCS /\ [][NextCDCS]_vars

\* thetas, energy, _ = run_opt(loss, theta0, n_epochs=..., lr=...)
InitRO ==
    /\ theta0 \in Thetas
    /\ theta = theta0
    /\ first = NoFirst
    /\ n_epochs \in 0..MaxEpochs
    /\ loss \in [Thetas -> LossValues]
    /\ value_and_grad = value_and_grad_rebound(loss)
    /\ val = <<>>
    /\ energy = <<>>
    /\ thetas = <<>>
    /\ gradients = <<>>
    /\ theta_opt = <<>>
    /\ i = 0
    /\ pc = "ro_loop"
    /\ err = "none"
    /\ IdleCD
    /\ m = <<>>
    /\ IdleCS
    /\ IdleMCM

NextRO == run_opt_loop \/ run_opt_return \/ take_theta_opt

SpecRO == InitRO /\ [][NextRO]_vars

\* the module-level run on the Heisenberg chain, from gens to k, m
InitHeis ==
    /\ g = gens
    /\ involution = <<>>
    /\ k = <<>>
    /\ m = <<>>
    /\ i = 1
    /\ pc = "lc_loop"
    /\ err = "none"
    /\ IdleCS
    /\ IdleRO
    /\ IdleMCM

NextHeis ==
    \/ lie_closure_step
    \/ lie_closure_done
    \/ cartan_decomposition_loop
    \/ cartan_decomposition_return

SpecHeis == InitHeis /\ [][NextHeis]_vars

\* create_half_filled_state(x)
InitHF ==
    /\ x \in [1..NPairs -> Angles]
    /\ selection = <<>>
    /\ state = {AllZero}
    /\ all_mcms = <<>>
    /\ sample = <<>>
    /\ i = 0
    /\ pc = "hf_init"
    /\ err = "none"
    /\ IdleCD
    /\ m = <<>>
    /\ IdleCS
    /\ IdleRO

NextHF == half_filled_init \/ half_filled_measure \/ half_filled_counts

SpecHF == InitHF /\ [][NextHF]_vars

\* create_selected_half_filled_state(x, selection)
InitSel ==
    /\ x \in [1..NPairs -> Angles]
    /\ selection \in [1..NPairs -> {<<>>, <<0>>, <<1>>}]
    /\ state = {AllZero}
    /\ all_mcms = <<>>
    /\ sample = <<>>
    /\ i = 0
    /\ pc = "sel_init"
    /\ err = "none"
    /\ IdleCD
    /\ m = <<>>
    /\ IdleCS
    /\ IdleRO

NextSel == selected_init \/ selected_measure \/ selected_correct \/ selected_counts

SpecSel == InitSel /\ [][NextSel]_vars

\* run_opt called twice with the same arguments, on a deterministic backend
NextRO2 ==
    \/ run_opt_loop /\ DeterministicBackend
    \/ run_opt_return
    \/ run_opt_again

SpecRO2 == InitRO /\ [][NextRO2]_vars

\* run_opt called twice with two different first arguments, on a
\* deterministic backend
NextRO3 ==
    \/ run_opt_loop /\ DeterministicBackend
    \/ run_opt_return
    \/ run_opt_again_other

SpecRO3 == InitRO /\ [][NextRO3]_vars

----------------------------------------------------------------------------
(* Properties of cartan_decomposition, checked under SpecCD *)

\* a sentence that is a single Pauli word, and its number of non-identity
\* factors
IsWord(op) == Cardinality(DOMAIN op) = 1
Weight(op) == WordLen(CHOOSE pw \in DOMAIN op : TRUE)

\* C1: when cartan_decomposition returns (k, m), k and m together hold the
\* elements of g and share none.
C1_Partition ==
    pc = "cd_returned" =>
        /\ Range(k) \cup Range(m) = Range(g)
        /\ Range(k) \cap Range(m) = {}

C1_Witness ==
    /\ pc = "cd_returned"
    /\ Len(g) = MaxLenG
    /\ k # <<>>
    /\ m # <<>>

\* C7 as stated: with even_odd_involution, every even-weight Pauli word of g
\* is in k and every weight-1 Pauli word of g is in m.
C7_EvenToVertical ==
    (pc = "cd_returned" /\ involution = EvenOddOn(g)) =>
        \A j \in 1..Len(g) :
            IsWord(g[j]) =>
                /\ (Weight(g[j]) % 2 = 0 => g[j] \in Range(k))
                /\ (Weight(g[j]) = 1 => g[j] \in Range(m))

\* C7 as amended: with even_odd_involution, every even-weight Pauli word of
\* g is in m and not in k, and every weight-1 Pauli word of g is in k and
\* not in m.
C7_EvenToHorizontal ==
    (pc = "cd_returned" /\ involution = EvenOddOn(g)) =>
        \A j \in 1..Len(g) :
            IsWord(g[j]) =>
                /\ (Weight(g[j]) % 2 = 0 =>
                        g[j] \in Range(m) /\ g[j] \notin Range(k))
                /\ (Weight(g[j]) = 1 =>
                        g[j] \in Range(k) /\ g[j] \notin Range(m))

C7_Witness ==
    /\ pc = "cd_returned"
    /\ involution = EvenOddOn(g)
    /\ m = <<XX, YY>>
    /\ k = <<XI>>

\* C10: when cartan_decomposition returns, every operator of k has the
\* label 1 (truthy) and every operator of m has the label 0 (falsy).
C10_Labels ==
    pc = "cd_returned" =>
        /\ \A j \in 1..Len(k) : involution[k[j]] = Ret(1)
        /\ \A j \in 1..Len(m) : involution[m[j]] = Ret(0)

C10_Witness ==
    /\ pc = "cd_returned"
    /\ Len(k) >= 1
    /\ Len(m) >= 2
    /\ involution # EvenOddOn(g)

----------------------------------------------------------------------------
(* Properties of cartan_subalgebra, checked under SpecCS *)

\* the zero operator: no term with a non-zero coefficient
IsZeroOperator(ps) == \A pw \in DOMAIN ps : ps[pw] = CZero
Commute(a, b) == IsZeroOperator(Simplify(Commutator(a, b)))
NoRepeats(s) == \A a, b \in 1..Len(s) : s[a] = s[b] => a = b

\* C2: when cartan_subalgebra returns for a non-empty m, the simplified
\* commutator of every two elements of h is the zero operator.
C2_Abelian ==
    (pc = "cs_returned" /\ m # <<>>) =>
        \A a, b \in 1..Len(h) : Commute(h[a], h[b])

C2_Witness ==
    /\ pc = "cs_returned"
    /\ Len(h) >= 2
    /\ Len(mtilde) >= 1

\* C3 as stated: when cartan_subalgebra returns, mtilde and h together hold
\* the elements of m and share none.
C3_SetPartition ==
    pc = "cs_returned" =>
        /\ Range(mtilde) \cup Range(h) = Range(m)
        /\ Range(mtilde) \cap Range(h) = {}

\* C3 as amended: when cartan_subalgebra returns, mtilde and h together hold
\* the elements of m, and they share none if no element occurs twice in m.
C3_SetPartitionNoRepeats ==
    pc = "cs_returned" =>
        /\ Range(mtilde) \cup Range(h) = Range(m)
        /\ NoRepeats(m) => Range(mtilde) \cap Range(h) = {}

C3_Witness ==
    /\ pc = "cs_returned"
    /\ NoRepeats(m)
    /\ Len(m) = MaxLenM
    /\ Len(h) >= 2
    /\ which # 0

\* C4 as stated: when cartan_subalgebra returns, every element of mtilde
\* fails to commute with at least one element of h.
C4_RemainderBlocked ==
    pc = "cs_returned" =>
        \A j \in 1..Len(mtilde) :
            \E l \in 1..Len(h) : ~Commute(mtilde[j], h[l])

\* C4 as amended: when cartan_subalgebra returns, every element of mtilde
\* that is not itself an element of h fails to commute with at least one
\* element of h.
C4_Maximal ==
    pc = "cs_returned" =>
        \A j \in 1..Len(mtilde) :
            mtilde[j] \notin Range(h) =>
                \E l \in 1..Len(h) : ~Commute(mtilde[j], h[l])

C4_Witness ==
    /\ pc = "cs_returned"
    /\ Len(h) >= 2
    /\ \E j \in 1..Len(mtilde) :
          /\ mtilde[j] \notin Range(h)
          /\ Commute(mtilde[j], h[1])
          /\ ~Commute(mtilde[j], h[2])

\* C5: cartan_subalgebra([], 0) raises (IndexError, the out-of-bounds
\* condition) and builds no result: it never reaches the pass over m or the
\* return, and h and mtilde stay unset.
C5_EmptyRaises ==
    (m = <<>> /\ which = 0 /\ pc # "cs_seed") =>
        /\ pc = "raised"
        /\ err = "IndexError"
        /\ h = <<>>
        /\ mtilde = <<>>

C5_Witness ==
    /\ m = <<>>
    /\ which = 0
    /\ pc = "raised"

\* C6 as stated: for a non-empty m, every seed index below 0 or at least
\* len(m) makes cartan_subalgebra raise.
C6_OutsideRaises ==
    (m # <<>> /\ (which < 0 \/ which >= Len(m)) /\ pc # "cs_seed") =>
        pc = "raised"

\* C6 as amended: for a non-empty m, every seed index below -len(m) or at
\* least len(m) makes cartan_subalgebra raise IndexError; an index in
\* -len(m)..-1 raises nothing and seeds h with m[len(m) + which].
C6_PythonIndexing ==
    (m # <<>> /\ pc # "cs_seed") =>
        /\ (which < -Len(m) \/ which >= Len(m)) =>
               (pc = "raised" /\ err = "IndexError")
        /\ (which >= -Len(m) /\ which < 0) =>
               (pc # "raised" /\ h[1] = m[Len(m) + which + 1])

C6_Witness ==
    /\ Len(m) = 2
    /\ which = -1
    /\ pc = "cs_returned"
    /\ h[1] = m[2]
    /\ m[1] # m[2]

----------------------------------------------------------------------------
(* Properties of run_opt and theta_opt, checked under SpecRO *)

\* C8 as stated: after run_opt has run n_epochs >= 1 iterations, the loss of
\* the vector taken as theta_opt is the minimum of the loss values observed
\* during the run (stated for loss functions without NaN).
C8_BestObserved ==
    (pc = "done" /\ n_epochs >= 1 /\ \A t \in Thetas : loss[t] # NaN) =>
        \A j \in 1..Len(energy) : loss[theta_opt[1]] <= energy[j]

\* C8 as amended: after run_opt has run n_epochs >= 1 iterations, the vector
\* taken as theta_opt is the last entry of the returned trajectory, the
\* result of the n_epochs-th update.
C8_LastIterate ==
    (pc = "done" /\ n_epochs >= 1) =>
        /\ Len(thetas) = n_epochs
        /\ theta_opt = <<thetas[n_epochs]>>
        /\ theta_opt = <<theta>>

C8_Witness ==
    /\ pc = "done"
    /\ n_epochs = MaxEpochs
    /\ \A t \in Thetas : loss[t] # NaN
    /\ \E j \in 1..Len(energy) : energy[j] < loss[theta_opt[1]]
    /\ thetas[1] # thetas[n_epochs]

\* C9: run_opt never reaches an error state, whatever the iteration budget
\* n_epochs >= 0 and the loss values.
C9_NeverFails == pc # "raised"

----------------------------------------------------------------------------
(* Further properties of cartan_decomposition, checked under SpecCD *)

\* the elements of s with the given label, in the order of s
RECURSIVE Labelled(_, _)
Labelled(s, label) ==
    IF s = <<>> THEN <<>>
    ELSE IF involution[Head(s)] = label
         THEN <<Head(s)>> \o Labelled(Tail(s), label)
         ELSE Labelled(Tail(s), label)

\* C11: when cartan_decomposition returns, k and m are subsequences of g:
\* k is g restricted to the elements labelled 1 and m is g restricted to
\* the elements labelled 0, each in the order of g.
C11_OrderPreserved ==
    pc = "cd_returned" =>
        /\ k = Labelled(g, Ret(1))
        /\ m = Labelled(g, Ret(0))

C11_Witness ==
    /\ pc = "cd_returned"
    /\ Len(g) = 3
    /\ k = <<g[1], g[3]>>
    /\ m = <<g[2]>>
    /\ g[1] # g[3]

----------------------------------------------------------------------------
(* Further properties of cartan_subalgebra, checked under SpecCS *)

\* C12: when cartan_subalgebra returns for a non-empty m and a seed index
\* it accepts, h contains the seed element m[which] (counted from the end
\* for a negative index) and every element of h is an element of m.
C12_SeedInSubset ==
    pc = "cs_returned" =>
        /\ Range(h) \subseteq Range(m)
        /\ which >= 0 => m[which + 1] \in Range(h)
        /\ which < 0 => m[Len(m) + which + 1] \in Range(h)

C12_Witness ==
    /\ pc = "cs_returned"
    /\ which = 1
    /\ Len(m) = 3
    /\ h = <<m[2], m[3]>>
    /\ m[1] # m[2]

----------------------------------------------------------------------------
(* Further properties of run_opt, checked under SpecRO *)

\* C13: run_opt records one entry of thetas and of energy per update step,
\* never takes more than n_epochs steps, and leaves its loop only after
\* exactly n_epochs steps, whatever the loss values: on return thetas and
\* energy hold exactly n_epochs entries each.
C13_FixedBudget ==
    /\ Len(thetas) = i
    /\ Len(energy) = i
    /\ i <= n_epochs
    /\ pc # "ro_loop" => i = n_epochs

C13_Witness ==
    /\ pc = "ro_returned"
    /\ n_epochs = MaxEpochs
    /\ Len(thetas) = MaxEpochs
    /\ energy[1] = energy[2]
    /\ thetas[1] = thetas[2]

----------------------------------------------------------------------------
(* Properties of two runs of run_opt, checked under SpecRO2 *)

\* C14: a second run of run_opt from the same initial vector, budget and
\* loss, on a backend whose step is deterministic, has at every iteration
\* the parameter and loss trajectories the first run had there, and returns
\* the trajectories the first run returned.
C14_SameTrajectories ==
    first.run = 2 =>
        /\ thetas = SubSeq(first.thetas, 1, i)
        /\ energy = SubSeq(first.energy, 1, i)
        /\ pc = "ro_returned" =>
               (thetas = first.thetas /\ energy = first.energy)

C14_Witness ==
    /\ first.run = 2
    /\ pc = "ro_returned"
    /\ n_epochs = MaxEpochs
    /\ thetas = first.thetas
    /\ thetas[1] # thetas[2]
    /\ thetas[MaxEpochs] # theta0

----------------------------------------------------------------------------
(* Properties of both routines, checked under SpecCDCS *)

\* C15: no step of cartan_subalgebra changes its input list m, and no step
\* of cartan_decomposition changes its input list g: each holds at return
\* the elements it held at the call, in the same order.
C15_InputsNotMutated ==
    [][/\ pc \in {"cs_seed", "cs_pass", "cs_remove"} => m' = m
       /\ pc = "cd_loop" => g' = g]_vars

C15_Witness ==
    /\ pc = "cs_returned"
    /\ Len(m) = MaxLenM
    /\ Len(mtilde) = 1
    /\ Len(h) = 2

----------------------------------------------------------------------------
(* Error conditions and commutation relations of cartan_decomposition,     *)
(* checked under SpecCD                                                    *)

\* the simplified commutator of a and b is zero or proportional to a Pauli
\* word of the list s
CommutatorIn(a, b, s) ==
    LET com == Simplify(Commutator(a, b))
    IN DOMAIN com # {} =>
           \E j \in 1..Len(s) : IsWord(s[j]) /\ DOMAIN s[j] = DOMAIN com

\* [s1, s2] is contained in s3
Bracket(s1, s2, s3) ==
    \A a \in Range(s1), b \in Range(s2) : CommutatorIn(a, b, s3)

\* the three Cartan commutation relations
CartanRelations(kk, mm) ==
    /\ Bracket(kk, kk, kk)
    /\ Bracket(kk, mm, mm)
    /\ Bracket(mm, mm, kk)

\* an involution that returns 0 or 1 for every element
ZeroOneValued(inv) == \A op \in DOMAIN inv : inv[op] \in {Ret(0), Ret(1)}

\* C16 as stated: cartan_decomposition called with an empty g raises an
\* error instead of returning.
C16_EmptyRaises ==
    (g = <<>> /\ pc # "cd_loop") => pc = "raised"

\* C16 as amended: cartan_decomposition called with an empty g raises
\* nothing and returns the pair of empty lists.
C16_EmptyReturnsEmpty ==
    (g = <<>> /\ pc # "cd_loop") =>
        /\ pc = "cd_returned"
        /\ err = "none"
        /\ k = <<>>
        /\ m = <<>>

C16_Witness ==
    /\ g = <<>>
    /\ pc = "cd_returned"
    /\ i = 1

\* C17: with an involution that returns 0 or 1 for every element of g,
\* cartan_decomposition never raises, also when the lists it builds violate
\* the Cartan commutation relations; after the last element it returns.
C17_NoErrorConditions ==
    ZeroOneValued(involution) =>
        /\ pc \in {"cd_loop", "cd_returned"}
        /\ err = "none"
        /\ (pc = "cd_loop" /\ i > Len(g)) => ENABLED cartan_decomposition_return

C17_Witness ==
    /\ pc = "cd_returned"
    /\ ZeroOneValued(involution)
    /\ Len(g) = MaxLenG
    /\ ~CartanRelations(k, m)

\* C20: for a list g of Pauli words closed under commutation, the pair
\* (k, m) returned by cartan_decomposition with even_odd_involution
\* satisfies the three Cartan commutation relations: every non-zero
\* commutator of two elements of k is proportional to an element of k, of
\* an element of k with an element of m to an element of m, and of two
\* elements of m to an element of k.
C20_CartanRelations ==
    (pc = "cd_returned" /\ involution = EvenOddOn(g) /\ Bracket(g, g, g)) =>
        CartanRelations(k, m)

C20_Witness ==
    /\ pc = "cd_returned"
    /\ involution = EvenOddOn(g)
    /\ Bracket(g, g, g)
    /\ k = <<ZI>>
    /\ Range(m) = {XX, YX}
    /\ ~Commute(m[1], m[2])
    /\ ~Commute(k[1], m[1])

\* number of 1s among the first n bits of a sample
RECURSIVE Ones(_, _)
Ones(b, n) == IF n = 0 THEN 0 ELSE b[n] + Ones(b, n - 1)

\* pair (w, w + 3) of a sample reads 01 or 10
PairHalfFilled(b, w) == b[w + 1] # b[w + NPairs + 1]

\* C18: whatever the three mid-circuit measurements of
\* create_half_filled_state returned, each pair (w, w + 3) of the final
\* sample reads 01 or 10, so the sample holds exactly three 1s, and 100110
\* is never produced.
C18_PairsHalfFilled ==
    pc = "hf_done" =>
        /\ \A w \in 0..(NPairs - 1) : PairHalfFilled(sample, w)
        /\ Ones(sample, 2 * NPairs) = NPairs
        /\ sample # <<1, 0, 0, 1, 1, 0>>

\* a run with three generic angles where the three measurements returned
\* 1, 0, 1 and the flips acted on wire 4 only
C18_Witness ==
    /\ pc = "hf_done"
    /\ \A w \in 1..NPairs : x[w] = "generic"
    /\ sample = <<1, 0, 1, 0, 1, 0>>

\* C19: whatever the measurements of create_selected_half_filled_state
\* returned and whatever the selection in {0, 1, None}^3, the final sample
\* has qubit w equal to selection[w] wherever that is not None, and every
\* pair (w, w + 3) still reads 01 or 10.
C19_SelectionHonoured ==
    pc = "sel_done" =>
        \A w \in 0..(NPairs - 1) :
            /\ selection[w + 1] # <<>> => sample[w + 1] = selection[w + 1][1]
            /\ PairHalfFilled(sample, w)

\* the selection [0, None, 1] of the tutorial, with measurements 1, 1, 0:
\* pairs 0 and 2 are corrected, pair 1 is left as measured
C19_Witness ==
    /\ pc = "sel_done"
    /\ selection = << <<0>>, <<>>, <<1>> >>
    /\ all_mcms = <<1, 1, 0>>
    /\ sample = <<0, 1, 1, 1, 0, 0>>

\* the list is closed under the commutator, up to the coefficients
Closed(basis) ==
    \A a, b \in 1..Len(basis) :
        DOMAIN Simplify(Commutator(basis[a], basis[b])) \subseteq
            UNION {DOMAIN basis[j] : j \in 1..Len(basis)}

\* C21: for the 4-qubit Heisenberg-chain generators the Lie closure g has
\* 60 Pauli-word basis elements, and cartan_decomposition with
\* even_odd_involution splits it into k of 24 and m of 36 elements.
C21_HeisenbergDimensions ==
    /\ pc \in {"cd_loop", "cd_returned"} =>
          /\ Len(g) = 60
          /\ Closed(g)
          /\ \A j \in 1..Len(g) : IsWord(g[j])
          /\ NoRepeats(g)
    /\ pc = "cd_returned" => Len(k) = 24 /\ Len(m) = 36

\* the decomposition of the closure has returned; the generators stand
\* first in g and went to m, and the commutator of X0 X1 with Y1 Y2, the
\* word X0 Z1 Y2, went to k
C21_Witness ==
    /\ pc = "cd_returned"
    /\ SubSeq(g, 1, Len(gens)) = gens
    /\ \A j \in 1..Len(gens) : gens[j] \in Range(m)
    /\ \E j \in 1..Len(k) :
          DOMAIN k[j] = {[w \in 1..n_wires |-> <<"X", "Z", "Y", "I">>[w]]}

\* C22: the result of cartan_subalgebra depends on the seed and on the
\* order of m.  On m = [XX, ZI, YY] the seed 0 returns {XX, YY}, while the
\* seed 1 on the same list, and the seed 0 on the same elements in the order
\* [ZI, YY, XX], return {ZI}: the results differ as sets and in size, and
\* the smaller one is not a commuting subset of maximum size.
C22_OrderAndSeedMatter ==
    (pc = "cs_returned" /\ first.run = 2
        /\ first.m = <<XX, ZI, YY>> /\ first.which = 0) =>
            /\ Range(first.h) = {XX, YY}
            /\ Range(h) = {ZI}

\* a second call on the same list with another seed has returned a
\* subalgebra that differs from the first as a set and is smaller, though
\* the larger one is a commuting subset of the same m
C22_Witness ==
    /\ pc = "cs_returned"
    /\ first.run = 2
    /\ m = first.m
    /\ which # first.which
    /\ Range(h) # Range(first.h)
    /\ Len(h) < Len(first.h)
    /\ \A a, b \in Range(first.h) : Commute(a, b)

\* C23: even_odd_involution returns a 0/1 parity label for every operator
\* whose Pauli representation is a sum of Pauli words, not only for a single
\* word: applied to any element of g it returns and does not raise.
C23_SumsLabelled ==
    \A j \in 1..Len(g) :
        /\ even_odd_involution(g[j]).exc = "none"
        /\ even_odd_involution(g[j]).ret \in {0, 1}

\* position of the first occurrence of an element in a list
FirstPos(s, el) == CHOOSE p \in 1..Len(s) : s[p] = el /\ \A q \in 1..(p - 1) : s[q] # el

\* the seed m[which], Python indexing: which counts from the end when negative
SeedOf(mm, w) == IF w >= 0 THEN mm[w + 1] ELSE mm[Len(mm) + w + 1]

\* C24: the list h built by cartan_subalgebra never holds an element twice
\* (the seed, met again during the pass, is not re-added), its first element
\* is m[which], and the further elements stand in the order in which they
\* occur in m.
C24_SeedFirstThenOrder ==
    pc \in {"cs_pass", "cs_remove", "cs_returned"} =>
        /\ \A a, b \in 1..Len(h) : a # b => h[a] # h[b]
        /\ h[1] = SeedOf(m, which)
        /\ \A a \in 2..Len(h) : h[a] \in Range(m)
        /\ \A a, b \in 2..Len(h) : a < b => FirstPos(m, h[a]) < FirstPos(m, h[b])

\* a call seeded with the last of three commuting elements has returned:
\* the seed stands first, the two others follow in the order of m
C24_Witness ==
    /\ pc = "cs_returned"
    /\ Len(m) = 3
    /\ which = 2
    /\ Len(h) = 3
    /\ h = <<m[3], m[1], m[2]>>

\* C25: for every non-empty input m of cartan_subalgebra, inputs with
\* repeated elements included, the removal loop never fails: each element of
\* h is present in mtilde when it is removed, and the result satisfies
\* len(mtilde) + len(h) = len(m).
C25_RemovalNeverFails ==
    /\ err # "ValueError"
    /\ (pc = "cs_remove" /\ i <= Len(h)) =>
          \E p \in 1..Len(mtilde) : mtilde[p] = h[i]
    /\ pc = "cs_returned" => Len(mtilde) + Len(h) = Len(m)

\* a call on a list with a repeated element has returned: the element is
\* in h once and its second occurrence stays in mtilde
C25_Witness ==
    /\ pc = "cs_returned"
    /\ m = <<XX, YY, XX>>
    /\ h = <<XX, YY>>
    /\ mtilde = <<XX>>

\* the acceptance filter run over mm[j..] against hh: an element is added
\* when it commutes with every current member and is not a member
RECURSIVE PassFrom(_, _, _)
PassFrom(mm, hh, j) ==
    IF j > Len(mm) THEN hh
    ELSE IF (\A l \in 1..Len(hh) : Commute(mm[j], hh[l]))
               /\ (\A l \in 1..Len(hh) : hh[l] # mm[j])
         THEN PassFrom(mm, Append(hh, mm[j]), j + 1)
         ELSE PassFrom(mm, hh, j + 1)

\* C26: the single greedy pass of cartan_subalgebra already reaches a fixed
\* point: a second pass of the acceptance filter over m against the final h
\* accepts no further element, so one pass and iteration to the fixed point
\* give the same h.
C26_OnePassIsFixpoint ==
    pc \in {"cs_remove", "cs_returned"} => PassFrom(m, h, 1) = h

\* a call has returned where the last element of m commutes with the seed
\* and was rejected because of an element accepted on the way
C26_Witness ==
    /\ pc = "cs_returned"
    /\ Len(m) = 3
    /\ Len(h) = 2
    /\ h = <<m[1], m[2]>>
    /\ m[3] \notin Range(h)
    /\ Commute(m[3], h[1])

\* C27: in run_opt the recorded loss values lag the recorded vectors by one
\* update: energy[0] = loss(theta0) and energy[i] = loss(thetas[i-1]) for
\* i >= 1 (positions counted from 0), and the two lists have the same
\* length, so no entry records the loss of the last vector thetas[-1].
C27_LossBeforeUpdate ==
    /\ Len(energy) = Len(thetas)
    /\ \A j \in 1..Len(energy) :
          energy[j] = IF j = 1 THEN loss[theta0] ELSE loss[thetas[j - 1]]

\* a run of two or more steps has returned, and the loss of the returned
\* last vector differs from every recorded value
C27_Witness ==
    /\ pc = "ro_returned"
    /\ Len(thetas) >= 2
    /\ thetas[1] # theta0
    /\ \A j \in 1..Len(energy) : energy[j] # loss[thetas[Len(thetas)]]

\* C28: the result of run_opt does not depend on its first argument
\* value_and_grad: the callable step evaluates is always the module-level
\* loss, and a second call that differs from the first only in that
\* argument returns the trajectories (and the gradients list) the first
\* call returned.
C28_FirstArgumentIgnored ==
    /\ pc \in {"ro_loop", "ro_returned"} => value_and_grad = loss
    /\ (first.run = 2 /\ pc = "ro_returned") =>
          /\ thetas = first.thetas
          /\ energy = first.energy
          /\ gradients = first.gradients

\* a second call with a callable that disagrees with loss at the initial
\* vector has returned after the full budget with the first call's lists
C28_Witness ==
    /\ first.run = 2
    /\ pc = "ro_returned"
    /\ n_epochs = MaxEpochs
    /\ first.argument[theta0] # loss[theta0]
    /\ energy = first.energy
    /\ energy[1] = loss[theta0]
    /\ thetas[1] # theta0

\* C29: the third value returned by run_opt, gradients, is always the empty
\* list: no iteration of the loop appends to it, whatever the budget.
C29_GradientsEmpty == Len(gradients) = 0

\* a run of the full budget has returned its three lists
C29_Witness ==
    /\ pc = "ro_returned"
    /\ n_epochs = MaxEpochs
    /\ Len(energy) = MaxEpochs
    /\ Len(thetas) = MaxEpochs
    /\ gradients = <<>>

====
